---- MODULE Spec2Model ----
(***************************************************************************)
(* Model of the token issuance and dispatch de-duplication core of the     *)
(* voice agent API: app/services/agent_service.py (DispatchCache,          *)
(* AgentService), app/services/token_service.py (TokenService) and the     *)
(* endpoints that call them.                                               *)
(*                                                                         *)
(* Time: time.time() is a float number of seconds.  The model's clock      *)
(* counts half seconds, so that 3.5 s is the tick 7 and the default        *)
(* three second window is 6 ticks.                                         *)
(*                                                                         *)
(* Scheduling: the endpoints are "async def" and the services are process  *)
(* singletons, so every coroutine runs on the one event-loop thread and    *)
(* control changes hands only at an await.  should_skip has no await; the  *)
(* only suspension point of create_dispatch is the external RPC.           *)
(***************************************************************************)
EXTENDS Integers, Sequences, FiniteSets, TLC

VARIABLES
    clock,      \* time.time(), in half seconds
    settings,   \* get_settings(): immutable after start
    cache,      \* DispatchCache._cache: (room, agent) -> timestamp
    callLog,    \* one record per create_dispatch coroutine: its room and
                \* effective agent, its should_skip decision and time, and its
                \* outcome (NoOutcome while it is suspended in the external RPC)
    rpcLog,     \* one record per external create_dispatch RPC invocation: its
                \* room and agent, the call that made it and what it answered
    last,       \* the most recent create_dispatch call: the request as sent,
                \* the arguments of the RPC it made, if it made one, and the
                \* request of the call before it, if there was one
    tok         \* the last token endpoint call and its outcome

vars == <<clock, settings, cache, callLog, rpcLog, last, tok>>

None == "None"

----------------------------------------------------------------------------
(* Bounds of the model *)

MaxCalls == 3
MaxTime == 7
MaxSkew == 1

DispatchIds == {"AD_x7Qk"}
Causes == {[type |-> "TwirpError", msg |-> "unavailable"]}

----------------------------------------------------------------------------
(* Settings *)

DefaultSettings ==
    [agent_name |-> "py-agent",
     environment |-> "development",
     dispatch_cache_ttl_seconds |-> 3,
     max_token_ttl_minutes |-> 1440,
     max_room_name_length |-> 100,
     max_identity_length |-> 100]

\* DispatchCache.ttl_seconds, in clock ticks
ttl_seconds == settings.dispatch_cache_ttl_seconds * 2

----------------------------------------------------------------------------
(* DispatchCache *)

\* a key that leaves the agent out
CacheKeyRoomOnly(room, agent) == <<room>>

CacheKey(room, agent) == <<room, agent>>

\* a sweep that takes every entry older than the call for expired
IsExpiredAtOnce(now, timestamp) == now - timestamp > 0

IsExpired(now, timestamp) == now - timestamp > ttl_seconds

\* the comparison of line 36 turned round
IsRecentInverted(now, timestamp) == now - timestamp > ttl_seconds

\* the comparison of line 36 with the boundary on the suppressing side
IsRecentInclusive(now, timestamp) == now - timestamp <= ttl_seconds

IsRecent(now, timestamp) == now - timestamp < ttl_seconds

expired_keys(c, now) == {k \in DOMAIN c : IsExpired(now, c[k])}

\* no sweep at all
SweptNothing(c, now) == c

\* the map after the sweep of lines 30-33
Swept(c, now) == [k \in (DOMAIN c) \ expired_keys(c, now) |-> c[k]]

\* line 40 left out
RecordNothing(c, key, now) == c

\* the map after "self._cache[key] = now"
Record(c, key, now) ==
    [k \in (DOMAIN c) \cup {key} |-> IF k = key THEN now ELSE c[k]]

\* the value should_skip returns
should_skip(c, room, agent, now) ==
    LET key == CacheKey(room, agent)
        s == Swept(c, now)
    IN  key \in DOMAIN s /\ IsRecent(now, s[key])

\* a should_skip that records the time of a suppressed call too
should_skip_cache_extending(c, room, agent, now) ==
    Record(Swept(c, now), CacheKey(room, agent), now)

\* the map should_skip leaves behind
should_skip_cache(c, room, agent, now) ==
    LET key == CacheKey(room, agent)
        s == Swept(c, now)
    IN  IF key \in DOMAIN s /\ IsRecent(now, s[key])
        THEN s
        ELSE Record(s, key, now)

----------------------------------------------------------------------------
(* AgentService *)

\* DispatchRequest bodies: the default agent left out and named, another
\* agent in the same room, the same agent in another room; metadata left out
\* and given
DispatchRequests ==
    {[room |-> "r1", agent_name |-> None, metadata |-> None],
     [room |-> "r1", agent_name |-> "py-agent", metadata |-> "{\"k\":1}"],
     [room |-> "r1", agent_name |-> "bot", metadata |-> None],
     [room |-> "r2", agent_name |-> None, metadata |-> "{\"k\":1}"]}

Falsy(v) == v = None \/ v = ""

\* the agent name as sent, without the default
EffectiveAgentAsSent(request) == request.agent_name

\* "request.agent_name or self.settings.agent_name"
EffectiveAgent(request) ==
    IF Falsy(request.agent_name) THEN settings.agent_name ELSE request.agent_name

\* "metadata or '{}'"
RpcMetadata(metadata) == IF Falsy(metadata) THEN "{}" ELSE metadata

\* the outcome of a coroutine that has not returned yet
NoOutcome == [pending |-> TRUE]

\* the suppressed response without its note
SkippedResponseNoNote(room, agent) ==
    [dispatch_id |-> "skipped", room |-> room, agent_name |-> agent,
     note |-> None]

SkippedResponse(room, agent) ==
    [dispatch_id |-> "skipped", room |-> room, agent_name |-> agent,
     note |-> "duplicate-suppressed"]

FreshResponse(dispatch_id, room, agent) ==
    [dispatch_id |-> dispatch_id, room |-> room, agent_name |-> agent,
     note |-> None]

\* an except clause that drops the cause
WrapDispatchErrorNoCause(e) ==
    [error |-> "AgentDispatchError",
     detail |-> <<"Failed to create agent dispatch">>]

\* the except clause of create_dispatch; a message is the sequence of its parts
WrapDispatchError(e) ==
    IF e.type = "AgentDispatchError"
    THEN [error |-> "AgentDispatchError", detail |-> <<e.msg>>]
    ELSE [error |-> "AgentDispatchError",
          detail |-> <<"Failed to create agent dispatch: ", e.msg>>]

\* time passes.  Once the model's budget of calls is used up nothing reads
\* the clock any more, and the model lets it stand.
Tick ==
    /\ clock < MaxTime
    /\ Len(callLog) < MaxCalls
    /\ clock' = clock + 1
    /\ UNCHANGED <<settings, cache, callLog, rpcLog, last, tok>>

\* the create_dispatch coroutines suspended in the external RPC
Pending == {i \in 1..Len(callLog) : ~callLog[i].skip /\ callLog[i].out = NoOutcome}

\* an RPC called without await: the event loop is held until it answers
LoopHeld(pending) == pending = {}

\* "await self._create_livekit_dispatch(...)": a coroutine suspended in the RPC
\* has given the event loop back, and should_skip takes no lock: the loop runs
\* another coroutine whatever is pending
LoopFree(pending) == TRUE

\* create_dispatch up to its first suspension: the suppressed return, or the
\* external RPC issued and awaited
CreateDispatch(request) ==
    /\ Len(callLog) < MaxCalls
    /\ LoopFree(Pending)
    /\ LET agent == EffectiveAgent(request)
           skip == should_skip(cache, request.room, agent, clock)
           id == Len(callLog) + 1
           before == IF Len(callLog) = 0 THEN <<>> ELSE <<last.request>>
           call == [room |-> request.room, agent |-> agent, t |-> clock,
                    skip |-> skip,
                    out |-> IF skip THEN SkippedResponse(request.room, agent)
                            ELSE NoOutcome]
       IN  /\ cache' = should_skip_cache(cache, request.room, agent, clock)
           /\ callLog' = Append(callLog, call)
           /\ IF skip
              THEN /\ UNCHANGED rpcLog
                   /\ last' = [request |-> request, before |-> before,
                               rpc |-> <<>>]
              ELSE /\ rpcLog' = Append(rpcLog,
                          [agent_name |-> agent, room |-> request.room,
                           call |-> id, result |-> NoOutcome])
                   /\ last' = [request |-> request, before |-> before,
                               rpc |-> <<[agent_name |-> agent,
                                          room |-> request.room,
                                          metadata |->
                                              RpcMetadata(request.metadata)]>>]
    /\ UNCHANGED <<clock, settings, tok>>

\* the RPC invocations made by call i
RpcsOf(i) == {r \in 1..Len(rpcLog) : rpcLog[r].call = i}

\* the RPC of call i answers: lines 86-95
RpcReturn(i, dispatch_id) ==
    /\ i \in Pending
    /\ callLog' = [callLog EXCEPT ![i].out =
                      FreshResponse(dispatch_id, callLog[i].room, callLog[i].agent)]
    /\ rpcLog' = [r \in 1..Len(rpcLog) |->
                     IF r \in RpcsOf(i) /\ rpcLog[r].result = NoOutcome
                     THEN [rpcLog[r] EXCEPT !.result = [dispatch_id |-> dispatch_id]]
                     ELSE rpcLog[r]]
    /\ UNCHANGED <<clock, settings, cache, last, tok>>

\* an except clause that takes the key of the failed call out of the cache
RpcRaiseForgets(i, e) ==
    /\ i \in Pending
    /\ callLog' = [callLog EXCEPT ![i].out = WrapDispatchError(e)]
    /\ rpcLog' = [r \in 1..Len(rpcLog) |->
                     IF r \in RpcsOf(i) /\ rpcLog[r].result = NoOutcome
                     THEN [rpcLog[r] EXCEPT !.result = [raised |-> e]]
                     ELSE rpcLog[r]]
    /\ cache' = [k \in (DOMAIN cache) \
                       {CacheKey(callLog[i].room, callLog[i].agent)} |-> cache[k]]
    /\ UNCHANGED <<clock, settings, last, tok>>

\* the RPC of call i raises: lines 97-101
RpcRaise(i, e) ==
    /\ i \in Pending
    /\ callLog' = [callLog EXCEPT ![i].out = WrapDispatchError(e)]
    /\ rpcLog' = [r \in 1..Len(rpcLog) |->
                     IF r \in RpcsOf(i) /\ rpcLog[r].result = NoOutcome
                     THEN [rpcLog[r] EXCEPT !.result = [raised |-> e]]
                     ELSE rpcLog[r]]
    /\ UNCHANGED <<clock, settings, cache, last, tok>>

----------------------------------------------------------------------------
(* Specification of the dispatch path *)

\* create_dispatch was not called yet
NoCall == [rpc |-> <<>>]

\* no token endpoint was called yet
NoToken == [endpoint |-> None]

Init ==
    /\ clock = 0
    /\ settings = DefaultSettings
    /\ cache = <<>>
    /\ callLog = <<>>
    /\ rpcLog = <<>>
    /\ last = NoCall
    /\ tok = NoToken

Next ==
    \/ Tick
    \/ \E request \in DispatchRequests : CreateDispatch(request)
    \/ \E i \in 1..MaxCalls, dispatch_id \in DispatchIds : RpcReturn(i, dispatch_id)
    \/ \E i \in 1..MaxCalls, e \in Causes : RpcRaise(i, e)

Spec == Init /\ [][Next]_vars

\* The DispatchCache on its own: should_skip called for any key at any time,
\* by create_dispatch calls whose RPCs have not answered.  What should_skip
\* answers and keeps does not depend on the RPCs (RpcReturn and RpcRaise leave
\* the cache alone).
CacheNext ==
    \/ Tick
    \/ \E request \in DispatchRequests : CreateDispatch(request)

CacheSpec == Init /\ [][CacheNext]_vars

----------------------------------------------------------------------------
(* TokenService *)

IdentityInputs == {None, "u1", "visitor-0123456789abcdef"}
\* "guest-" and the 11 characters of secrets.token_urlsafe(8)
GuestIdentities == {"guest-Zm9vYmFyYmE", "guest-cXV1eGJheno"}
NameInputs == {None, "Ann"}
TokenRooms == {"r1", "lobby"}
TtlInputs == {60, 61}
\* an agent_name a caller may add to the query or body: neither endpoint
\* declares such a parameter and TokenRequest has no such field
AgentNameInputs == {None, "bot"}
\* to_jwt returns, or raises one of SignFailures
SignOk == [type |-> "ok", msg |-> ""]
SignFailures == {[type |-> "ValueError", msg |-> "api_key and api_secret must be set"]}

\* a deployment that configures ceilings below the request model's own bounds
StrictSettings ==
    [agent_name |-> "py-agent",
     environment |-> "production",
     dispatch_cache_ttl_seconds |-> 3,
     max_token_ttl_minutes |-> 60,
     max_room_name_length |-> 3,
     max_identity_length |-> 20]

\* dt.timedelta(minutes=m), in clock ticks
Minutes(m) == m * 60 * 2

\* what a caller sends to a token endpoint: the query of GET /token, the body
\* of POST /token
TokenQueries ==
    [room : TokenRooms, identity : IdentityInputs, name : NameInputs,
     ttl_minutes : TtlInputs, mic_only : BOOLEAN, dispatch_agent : BOOLEAN,
     agent_name : AgentNameInputs]

\* the TokenRequest an endpoint builds from a query: its six fields, with the
\* resolved identity; anything else the caller sent is dropped
TokenRequestOf(query, identity) ==
    [room |-> query.room, identity |-> identity, name |-> query.name,
     ttl_minutes |-> query.ttl_minutes, mic_only |-> query.mic_only,
     dispatch_agent |-> query.dispatch_agent]

\* a ceiling that rejects the maximum itself
TtlExceededAtCeiling(request) ==
    request.ttl_minutes >= settings.max_token_ttl_minutes

\* lines 37-42
TtlExceeded(request) == request.ttl_minutes > settings.max_token_ttl_minutes

\* grants that never restrict the sources
VideoGrantsUnrestricted(request) ==
    [room_join |-> TRUE, room |-> request.room, can_publish |-> TRUE,
     can_subscribe |-> TRUE, can_publish_sources |-> <<>>]

\* lines 44-55: an empty can_publish_sources restricts nothing
VideoGrants(request) ==
    [room_join |-> TRUE, room |-> request.room, can_publish |-> TRUE,
     can_subscribe |-> TRUE,
     can_publish_sources |-> IF request.mic_only THEN <<"microphone">> ELSE <<>>]

\* _build_agent_metadata, read at the instant now
build_agent_metadata(now) ==
    [source |-> "api", timestamp |-> now, environment |-> settings.environment]

\* a room configuration on every token
RoomAgentsAlways(request, now) ==
    <<[agent_name |-> settings.agent_name, metadata |-> build_agent_metadata(now)]>>

\* lines 68-76: the agents of the room configuration; none when
\* with_room_config is not called
RoomAgents(request, now) ==
    IF request.dispatch_agent
    THEN <<[agent_name |-> settings.agent_name,
            metadata |-> build_agent_metadata(now)]>>
    ELSE <<>>

\* lines 57-66 and 68-76: what the builder holds when to_jwt is called
Claims(request, now) ==
    [identity |-> request.identity,
     name |-> IF Falsy(request.name) THEN request.identity ELSE request.name,
     grants |-> VideoGrants(request),
     ttl |-> Minutes(request.ttl_minutes),
     agents |-> RoomAgents(request, now)]

\* to_jwt at the instant now: the credential carries the claims and now + ttl
Jwt(claims, now) == [claims |-> claims, exp |-> now + claims.ttl]

\* lines 80-93; the response reads the clock again, at the instant later
TokenResponse(request, jwt, later) ==
    [token |-> jwt, room |-> request.room, identity |-> request.identity,
     ttl_minutes |-> request.ttl_minutes,
     expires_at |-> later + Minutes(request.ttl_minutes)]

\* the except clause of generate_token
WrapTokenError(e) ==
    IF e.type = "TokenGenerationError"
    THEN [error |-> "TokenGenerationError", detail |-> <<e.msg>>]
    ELSE [error |-> "TokenGenerationError",
          detail |-> <<"Failed to generate token: ", e.msg>>]

\* generate_token: the claims handed to the signing primitive (one per
\* invocation) and the outcome.  sign is SignOk or the exception to_jwt raises.
generate_token(request, now, later, sign) ==
    IF TtlExceeded(request)
    THEN [signed |-> <<>>,
          out |-> WrapTokenError([type |-> "TokenGenerationError",
                                  msg |-> "TTL exceeds maximum allowed"])]
    ELSE LET claims == Claims(request, now)
         IN  IF sign = SignOk
             THEN [signed |-> <<claims>>,
                   out |-> TokenResponse(request, Jwt(claims, now), later)]
             ELSE [signed |-> <<claims>>, out |-> WrapTokenError(sign)]

\* the length checks of validate_token_request (lines 116-126), a method that
\* neither generate_token nor an endpoint calls
LengthExceeded(request) ==
    \/ Len(request.room) > settings.max_room_name_length
    \/ /\ ~Falsy(request.identity)
       /\ Len(request.identity) > settings.max_identity_length

\* a guest identifier for every caller
ResolveIdentityAlwaysGuest(identity, guest) == guest

\* "if not identity: identity = guest-..." of both endpoints
ResolveIdentity(identity, guest) == IF Falsy(identity) THEN guest ELSE identity

\* a token endpoint that notes the dispatch it embeds in the dispatch cache
TokenCallRecording(endpoint, query, guest, skew, sign) ==
    /\ tok = NoToken
    /\ clock + skew <= MaxTime
    /\ LET request ==
               TokenRequestOf(query, ResolveIdentity(query.identity, guest))
           r == generate_token(request, clock, clock + skew, sign)
       IN  tok' = [endpoint |-> endpoint, asked |-> query.identity,
                   sent |-> query.agent_name,
                   request |-> request, at |-> clock, sign |-> sign,
                   signed |-> r.signed, out |-> r.out]
    /\ clock' = clock + skew
    /\ cache' = IF query.dispatch_agent
                THEN Record(cache, CacheKey(query.room, settings.agent_name), clock)
                ELSE cache
    /\ UNCHANGED <<settings, callLog, rpcLog, last>>

\* one call of a token endpoint, from the query or body to the outcome of
\* generate_token; the clock may advance by skew between two reads of it.
\* generate_token has no await: the calls of the endpoints run one at a time.
TokenCall(endpoint, query, guest, skew, sign) ==
    /\ tok = NoToken
    /\ clock + skew <= MaxTime
    /\ LET request ==
               TokenRequestOf(query, ResolveIdentity(query.identity, guest))
           r == generate_token(request, clock, clock + skew, sign)
       IN  tok' = [endpoint |-> endpoint, asked |-> query.identity,
                   sent |-> query.agent_name,
                   request |-> request, at |-> clock, sign |-> sign,
                   signed |-> r.signed, out |-> r.out]
    /\ clock' = clock + skew
    /\ UNCHANGED <<settings, cache, callLog, rpcLog, last>>

\* GET /token
get_token ==
    \E query \in TokenQueries, guest \in GuestIdentities, skew \in 0..MaxSkew,
       sign \in {SignOk} \cup SignFailures :
        TokenCall("GET", query, guest, skew, sign)

\* POST /token
create_token ==
    \E query \in TokenQueries, guest \in GuestIdentities, skew \in 0..MaxSkew,
       sign \in {SignOk} \cup SignFailures :
        TokenCall("POST", query, guest, skew, sign)

\* the endpoint hands the outcome to the caller; nothing of it is kept
TokenReturned ==
    /\ tok # NoToken
    /\ tok' = NoToken
    /\ UNCHANGED <<clock, settings, cache, callLog, rpcLog, last>>

----------------------------------------------------------------------------
(* Specification of the token path: the deployment's settings are any of   *)
(* the two, and the token endpoints are called any number of times         *)

TokenInit ==
    /\ clock = 0
    /\ settings \in {DefaultSettings, StrictSettings}
    /\ cache = <<>>
    /\ callLog = <<>>
    /\ rpcLog = <<>>
    /\ last = NoCall
    /\ tok = NoToken

TokenNext ==
    \/ Tick
    \/ get_token
    \/ create_token
    \/ TokenReturned

TokenSpec == TokenInit /\ [][TokenNext]_vars

----------------------------------------------------------------------------
(* Specification of the two services side by side: one process serves the  *)
(* token endpoints and the dispatch endpoint, through the singletons of    *)
(* dependencies.py.  A client asks POST /token for a token for room "r1",   *)
(* with or without an embedded dispatch, and clients call POST /dispatch   *)
(* for that room, for the default agent or another, without metadata.      *)

ClientQueries ==
    {query \in TokenQueries :
        /\ query.room = "r1" /\ query.identity = "u1" /\ query.name = None
        /\ query.ttl_minutes = 60 /\ query.mic_only
        /\ query.agent_name = None}

ClientRequests ==
    {request \in DispatchRequests :
        request.room = "r1" /\ request.metadata = None}

\* POST /token of the client; the two clock reads fall in one tick
client_token ==
    \E query \in ClientQueries, guest \in {"guest-Zm9vYmFyYmE"} :
        TokenCall("POST", query, guest, 0, SignOk)

ServiceNext ==
    \/ Tick
    \/ client_token
    \/ TokenReturned
    \/ \E request \in ClientRequests : CreateDispatch(request)
    \/ \E i \in 1..MaxCalls, dispatch_id \in DispatchIds : RpcReturn(i, dispatch_id)
    \/ \E i \in 1..MaxCalls, e \in Causes : RpcRaise(i, e)

ServiceSpec == Init /\ [][ServiceNext]_vars

----------------------------------------------------------------------------
(* Vocabulary of the properties *)

Calls == 1..Len(callLog)
Rpcs == 1..Len(rpcLog)
KeyOf(i) == <<callLog[i].room, callLog[i].agent>>
RpcKey(r) == <<rpcLog[r].room, rpcLog[r].agent_name>>
DecidedAt(r) == callLog[rpcLog[r].call].t
IsResponse(o) == "dispatch_id" \in DOMAIN o
IsError(o) == "error" \in DOMAIN o
IsSuppressedMarker(o) ==
    IsResponse(o) /\ o.dispatch_id = "skipped" /\ o.note = "duplicate-suppressed"

\* the accepted calls for the key of call j made before it
AcceptedBefore(j) ==
    {i \in Calls : i < j /\ KeyOf(i) = KeyOf(j) /\ ~callLog[i].skip}

\* the last accepted call for the key of call j made before it (0: none)
LastAcceptedBefore(j) ==
    IF AcceptedBefore(j) = {} THEN 0
    ELSE CHOOSE i \in AcceptedBefore(j) : \A m \in AcceptedBefore(j) : m <= i

----------------------------------------------------------------------------
(* Properties of the dispatch path, checked under Spec *)

\* C1: at most one dispatch per (room, effective agent) pair per window: any
\* two external RPC invocations for one pair come from calls whose should_skip
\* decisions lie at least ttl_seconds apart; and of two calls for one pair less
\* than ttl_seconds apart, the first accepted, exactly one reaches the RPC and
\* the second returns the suppressed marker.
C1_AtMostOneDispatchPerWindow ==
    /\ \A q, r \in Rpcs :
          (q < r /\ RpcKey(q) = RpcKey(r)) =>
              DecidedAt(r) - DecidedAt(q) >= ttl_seconds
    /\ \A i, j \in Calls :
          (/\ i < j
           /\ KeyOf(i) = KeyOf(j)
           /\ ~callLog[i].skip
           /\ callLog[j].t - callLog[i].t < ttl_seconds) =>
              /\ Cardinality(RpcsOf(i) \cup RpcsOf(j)) = 1
              /\ RpcsOf(j) = {}
              /\ IsSuppressedMarker(callLog[j].out)

\* a pair dispatched twice, a window apart, with a suppressed call in between
C1_Witness ==
    \E i, j, k \in Calls :
        /\ i < j /\ j < k
        /\ KeyOf(i) = KeyOf(j) /\ KeyOf(j) = KeyOf(k)
        /\ RpcsOf(i) # {} /\ RpcsOf(j) = {} /\ RpcsOf(k) # {}
        /\ callLog[j].t - callLog[i].t < ttl_seconds

\* C2: a call that should_skip suppresses returns at once the response with
\* dispatch_id "skipped" and note "duplicate-suppressed", makes no external RPC
\* and raises nothing; a call that is not suppressed and whose RPC answers
\* returns the identifier the RPC gave, with no note; no outcome is both a
\* fresh identifier and the suppressed marker.
C2_SuppressedOutcome ==
    \A i \in Calls :
        LET c == callLog[i]
        IN  /\ c.skip =>
                /\ IsResponse(c.out)
                /\ c.out.dispatch_id = "skipped"
                /\ c.out.note = "duplicate-suppressed"
                /\ c.out.room = c.room
                /\ RpcsOf(i) = {}
            /\ ~c.skip =>
                /\ ~IsSuppressedMarker(c.out)
                /\ \A r \in RpcsOf(i) :
                      "dispatch_id" \in DOMAIN rpcLog[r].result =>
                          /\ IsResponse(c.out)
                          /\ c.out.dispatch_id = rpcLog[r].result.dispatch_id
                          /\ c.out.note = None
            /\ IsSuppressedMarker(c.out) <=> RpcsOf(i) = {}

\* a suppressed call after a call for the same key whose RPC answered
C2_Witness ==
    \E i, j \in Calls :
        /\ i < j
        /\ KeyOf(i) = KeyOf(j)
        /\ callLog[j].skip
        /\ ~callLog[i].skip
        /\ IsResponse(callLog[i].out)
        /\ callLog[i].out.dispatch_id \in DispatchIds

\* C3: non-extension: a suppressed should_skip call leaves the stored timestamp
\* of its key as it was, and the timestamp stored for a key is always the time
\* of the last accepted call for it: the window is measured from that call.
C3_NonExtension ==
    /\ [][\A j \in 1..MaxCalls + 1 :
            (Len(callLog') = j /\ Len(callLog) = j - 1 /\ callLog'[j].skip) =>
                LET k == <<callLog'[j].room, callLog'[j].agent>>
                IN  /\ k \in DOMAIN cache
                    /\ k \in DOMAIN cache'
                    /\ cache'[k] = cache[k]]_vars
    /\ [](\A k \in DOMAIN cache :
            \E i \in Calls :
                /\ KeyOf(i) = k /\ ~callLog[i].skip /\ callLog[i].t = cache[k]
                /\ \A m \in Calls : (KeyOf(m) = k /\ ~callLog[m].skip) => m <= i)

\* ttl 3 s: accepted at 0 s, suppressed at 1 s, accepted again at 3.5 s
C3_Witness ==
    /\ settings.dispatch_cache_ttl_seconds = 3
    /\ \E i, j, k \in Calls :
        /\ i < j /\ j < k
        /\ KeyOf(i) = KeyOf(j) /\ KeyOf(j) = KeyOf(k)
        /\ callLog[i].t = 0 /\ ~callLog[i].skip
        /\ callLog[j].t = 2 /\ callLog[j].skip
        /\ callLog[k].t = 7 /\ ~callLog[k].skip

\* C4: window expiry, boundary exclusive: a call for a key whose last accepted
\* call lies ttl_seconds or more back (exactly ttl_seconds included) is not
\* suppressed, overwrites the entry with its own time and makes a further
\* external RPC.
C4_WindowExpiry ==
    [][\A j \in 1..MaxCalls + 1 :
         (/\ Len(callLog') = j
          /\ Len(callLog) = j - 1
          /\ \E i \in Calls :
                /\ callLog[i].room = callLog'[j].room
                /\ callLog[i].agent = callLog'[j].agent
                /\ ~callLog[i].skip
          /\ \A i \in Calls :
                (/\ callLog[i].room = callLog'[j].room
                 /\ callLog[i].agent = callLog'[j].agent
                 /\ ~callLog[i].skip) => clock - callLog[i].t >= ttl_seconds) =>
             LET k == <<callLog'[j].room, callLog'[j].agent>>
             IN  /\ ~callLog'[j].skip
                 /\ k \in DOMAIN cache'
                 /\ cache'[k] = clock
                 /\ Len(rpcLog') = Len(rpcLog) + 1
                 /\ rpcLog'[Len(rpcLog')].call = j
                 /\ <<rpcLog'[Len(rpcLog')].room,
                      rpcLog'[Len(rpcLog')].agent_name>> = k]_vars

\* two RPCs for one key from calls exactly ttl_seconds apart
C4_Witness ==
    \E q, r \in Rpcs :
        /\ q < r
        /\ RpcKey(q) = RpcKey(r)
        /\ DecidedAt(r) - DecidedAt(q) = ttl_seconds
        /\ cache[RpcKey(r)] = DecidedAt(r)

RECURSIVE SoloCache(_, _)
\* the map a DispatchCache would hold after those of the calls 1..n that are
\* for key k, had the calls for every other key never been made
SoloCache(k, n) ==
    IF n = 0 THEN <<>>
    ELSE IF KeyOf(n) = k
         THEN should_skip_cache(SoloCache(k, n - 1), callLog[n].room,
                                callLog[n].agent, callLog[n].t)
         ELSE SoloCache(k, n - 1)

\* C5: key isolation: every call gets from should_skip the answer it would get
\* had the calls for all other (room, agent) keys never been made.
C5_KeyIsolation ==
    \A j \in Calls :
        callLog[j].skip =
            should_skip(SoloCache(KeyOf(j), j - 1), callLog[j].room,
                        callLog[j].agent, callLog[j].t)

\* inside one window: two rooms with one agent both reach the RPC, and so do
\* two agents in one room
C5_Witness ==
    /\ \E i, j \in Calls :
          /\ i < j
          /\ callLog[i].room # callLog[j].room
          /\ callLog[i].agent = callLog[j].agent
          /\ callLog[j].t - callLog[i].t < ttl_seconds
          /\ RpcsOf(i) # {} /\ RpcsOf(j) # {}
    /\ \E i, j \in Calls :
          /\ i < j
          /\ callLog[i].room = callLog[j].room
          /\ callLog[i].agent # callLog[j].agent
          /\ callLog[j].t - callLog[i].t < ttl_seconds
          /\ RpcsOf(i) # {} /\ RpcsOf(j) # {}

C7_RpcFailure ==
    /\ \A r \in Rpcs :
          "raised" \in DOMAIN rpcLog[r].result =>
              LET o == callLog[rpcLog[r].call].out
              IN  /\ IsError(o)
                  /\ o.error = "AgentDispatchError"
                  /\ Len(o.detail) > 0
                  /\ o.detail[Len(o.detail)] = rpcLog[r].result.raised.msg
    /\ \A i \in Calls :
          /\ ~callLog[i].skip => Cardinality(RpcsOf(i)) = 1
          /\ IsError(callLog[i].out) =>
                \E r \in RpcsOf(i) : "raised" \in DOMAIN rpcLog[r].result

\* a call whose RPC raised, and a later call for the same key
C7_Witness ==
    \E i, j \in Calls :
        /\ i < j
        /\ KeyOf(i) = KeyOf(j)
        /\ IsError(callLog[i].out)
        /\ Cardinality(RpcsOf(i)) = 1
        /\ callLog[j].t > callLog[i].t

----------------------------------------------------------------------------
(* Properties of the token path, checked under TokenSpec *)

IsTokenResponse(o) == "token" \in DOMAIN o
IsTokenError(o) == IsError(o) /\ o.error = "TokenGenerationError"

\* C8: TTL ceiling: a request with ttl_minutes above max_token_ttl_minutes
\* fails with TokenGenerationError and the signing primitive is not invoked; a
\* request with ttl_minutes at or below it passes the check, reaches the
\* signing primitive once, and succeeds when signing succeeds.
C8_TtlCeiling ==
    tok # NoToken =>
        LET over == tok.request.ttl_minutes > settings.max_token_ttl_minutes
        IN  /\ over => IsTokenError(tok.out) /\ tok.signed = <<>>
            /\ ~over =>
                  /\ Len(tok.signed) = 1
                  /\ tok.sign = SignOk =>
                        /\ IsTokenResponse(tok.out)
                        /\ tok.out.ttl_minutes = tok.request.ttl_minutes
                  /\ tok.sign # SignOk =>
                        /\ IsTokenError(tok.out)
                        /\ tok.out.detail[Len(tok.out.detail)] = tok.sign.msg

\* a request one minute above a configured ceiling of 60 minutes is rejected
C8_Witness ==
    /\ tok # NoToken
    /\ settings.max_token_ttl_minutes = 60
    /\ tok.request.ttl_minutes = 61
    /\ IsTokenError(tok.out)
    /\ tok.signed = <<>>

\* C9: token issuance fails with TokenGenerationError, and signs nothing,
\* whenever the room name is longer than max_room_name_length or the identity
\* is longer than max_identity_length.
C9_LengthCheck ==
    (tok # NoToken /\ LengthExceeded(tok.request)) =>
        IsTokenError(tok.out) /\ tok.signed = <<>>

\* C10: mic-only: the publish-source restriction handed to the signing
\* primitive and carried by every issued token is exactly {microphone} if and
\* only if the request's mic_only flag is set, and absent otherwise.
C10_MicOnly ==
    tok # NoToken =>
        /\ \A n \in 1..Len(tok.signed) :
              LET sources == tok.signed[n].grants.can_publish_sources
              IN  /\ tok.request.mic_only <=> sources = <<"microphone">>
                  /\ ~tok.request.mic_only <=> sources = <<>>
        /\ IsTokenResponse(tok.out) =>
              /\ Len(tok.signed) = 1
              /\ tok.out.token.claims = tok.signed[1]
              /\ tok.request.mic_only <=>
                    tok.out.token.claims.grants.can_publish_sources
                        = <<"microphone">>
              /\ ~tok.request.mic_only <=>
                    tok.out.token.claims.grants.can_publish_sources = <<>>

\* a token issued with mic_only set, with an agent dispatch embedded
C10_Witness ==
    /\ tok # NoToken
    /\ IsTokenResponse(tok.out)
    /\ tok.request.mic_only
    /\ tok.request.dispatch_agent
    /\ tok.out.token.claims.grants.can_publish_sources = <<"microphone">>

\* C11: identity resolution: the identity embedded in the signed credential
\* equals the identity reported in the response; it is the caller-supplied
\* identity verbatim when one is present and otherwise a guest identifier
\* resolved before the claims are built; the display name is the
\* caller-supplied name if present, otherwise the resolved identity; on both
\* token endpoints.
C11_IdentityResolution ==
    tok # NoToken =>
        /\ tok.endpoint \in {"GET", "POST"}
        /\ IF Falsy(tok.asked)
           THEN tok.request.identity \in GuestIdentities
           ELSE tok.request.identity = tok.asked
        /\ \A n \in 1..Len(tok.signed) :
              /\ tok.signed[n].identity = tok.request.identity
              /\ tok.signed[n].name =
                    IF Falsy(tok.request.name) THEN tok.request.identity
                    ELSE tok.request.name
        /\ IsTokenResponse(tok.out) =>
              /\ tok.out.identity = tok.out.token.claims.identity
              /\ tok.out.identity = tok.request.identity
              /\ tok.out.token.claims.name =
                    IF Falsy(tok.request.name) THEN tok.out.identity
                    ELSE tok.request.name

\* POST /token without identity or name: a guest identifier is signed,
\* reported, and used as the display name
C11_Witness ==
    /\ tok # NoToken
    /\ tok.endpoint = "POST"
    /\ tok.asked = None
    /\ tok.request.name = None
    /\ IsTokenResponse(tok.out)
    /\ tok.out.identity \in GuestIdentities
    /\ tok.out.token.claims.identity = tok.out.identity
    /\ tok.out.token.claims.name = tok.out.identity

\* C12: the expiration timestamp reported to the caller equals the issuance
\* instant plus the TTL and matches the expiry encoded in the signed
\* credential: the two cannot differ even if the clock advances between
\* signing and assembling the response.
C12_ExpiryComputedOnce ==
    (tok # NoToken /\ IsTokenResponse(tok.out)) =>
        /\ tok.out.expires_at = tok.at + Minutes(tok.request.ttl_minutes)
        /\ tok.out.expires_at = tok.out.token.exp

\* C13 (as stated): an agent-dispatch instruction is embedded if and only if
\* dispatch_agent is true, and when embedded it names exactly one agent: the
\* agent_name the caller sent if the caller sent one, otherwise the
\* configured default.
C13_CallerOverrideNamed ==
    tok # NoToken =>
        \A n \in 1..Len(tok.signed) :
            LET agents == tok.signed[n].agents
            IN  /\ agents # <<>> <=> tok.request.dispatch_agent
                /\ agents # <<>> =>
                      /\ Len(agents) = 1
                      /\ agents[1].agent_name =
                            IF Falsy(tok.sent) THEN settings.agent_name
                            ELSE tok.sent

\* C13: an agent-dispatch instruction is embedded in the claims handed to the
\* signing primitive, and in every issued token, if and only if
\* dispatch_agent is true; when embedded it names exactly one agent, the
\* configured default agent name, whatever agent_name the caller sent; its
\* metadata is built at issuance: source "api", the issuance instant, the
\* configured environment.
C13_DispatchInstruction ==
    tok # NoToken =>
        /\ \A n \in 1..Len(tok.signed) :
              LET agents == tok.signed[n].agents
              IN  /\ agents # <<>> <=> tok.request.dispatch_agent
                  /\ agents # <<>> =>
                        /\ Len(agents) = 1
                        /\ agents[1].agent_name = settings.agent_name
                        /\ agents[1].metadata.source = "api"
                        /\ agents[1].metadata.timestamp = tok.at
                        /\ agents[1].metadata.environment = settings.environment
        /\ IsTokenResponse(tok.out) =>
              /\ Len(tok.signed) = 1
              /\ tok.out.token.claims.agents = tok.signed[1].agents

\* a token issued after the first instant to a caller who asked for the
\* agent "bot": it embeds one instruction, for the configured default
C13_Witness ==
    /\ tok # NoToken
    /\ tok.request.dispatch_agent
    /\ tok.sent = "bot"
    /\ tok.at > 0
    /\ IsTokenResponse(tok.out)
    /\ Len(tok.out.token.claims.agents) = 1
    /\ tok.out.token.claims.agents[1].agent_name = settings.agent_name
    /\ tok.out.token.claims.agents[1].metadata.timestamp = tok.at

----------------------------------------------------------------------------
(* Further properties of the dispatch path, checked under Spec *)

\* C14: the external RPC is invoked strictly after the should_skip decision
\* of its call, and only when that decision was not to skip, and outside any
\* exclusive section: while the RPC of one request is pending, however long,
\* a create_dispatch of any other request, for any key, can take its
\* should_skip decision at once.
C14_RpcOutsideSection ==
    /\ [][Len(rpcLog') > Len(rpcLog) =>
              /\ Len(rpcLog') = Len(rpcLog) + 1
              /\ Len(callLog') = Len(callLog) + 1
              /\ ~callLog'[Len(callLog')].skip
              /\ rpcLog'[Len(rpcLog')].call = Len(callLog')]_vars
    /\ [](/\ \A r \in Rpcs :
                /\ rpcLog[r].call \in Calls
                /\ ~callLog[rpcLog[r].call].skip
                /\ rpcLog[r].result = NoOutcome <=> rpcLog[r].call \in Pending
          /\ Len(callLog) < MaxCalls =>
                \A request \in DispatchRequests :
                    ENABLED CreateDispatch(request))

\* call i still hangs in its RPC; after it a call for the same key was
\* suppressed, and a call for another key was decided, dispatched and answered
C14_Witness ==
    \E i, j, k \in Calls :
        /\ i < j /\ i < k
        /\ i \in Pending
        /\ KeyOf(j) = KeyOf(i) /\ callLog[j].skip
        /\ KeyOf(k) # KeyOf(i) /\ ~callLog[k].skip
        /\ IsResponse(callLog[k].out)

\* the two spellings of one request for the default agent: agent_name left
\* out by one, the configured default named by the other, for the same room
DefaultSpelledTwice(p, q) ==
    /\ p.room = q.room
    /\ \/ Falsy(p.agent_name) /\ q.agent_name = settings.agent_name
       \/ Falsy(q.agent_name) /\ p.agent_name = settings.agent_name

\* C15: the effective agent name (the request's override when given,
\* otherwise the configured default) is the agent of the cache key, of the
\* RPC and of the response; the metadata passed to the RPC is "{}" when the
\* request gives none; a request that leaves agent_name out and one that names
\* the configured default address the same key, and the later of the two is
\* suppressed when it follows the accepted other within the window.
C15_EffectiveAgent ==
    [](last # NoCall =>
              LET n == Len(callLog)
                  c == callLog[n]
                  q == last.request
                  eff == IF Falsy(q.agent_name) THEN settings.agent_name
                         ELSE q.agent_name
              IN  /\ c.room = q.room /\ c.agent = eff
                  /\ <<q.room, eff>> \in DOMAIN cache
                  /\ c.skip =>
                        /\ last.rpc = <<>>
                        /\ RpcsOf(n) = {}
                        /\ c.out.agent_name = eff
                  /\ ~c.skip =>
                        /\ cache[<<q.room, eff>>] = c.t
                        /\ last.rpc =
                              <<[agent_name |-> eff, room |-> q.room,
                                 metadata |-> IF Falsy(q.metadata) THEN "{}"
                                              ELSE q.metadata]>>
                        /\ \A r \in RpcsOf(n) :
                              rpcLog[r].agent_name = eff /\ rpcLog[r].room = q.room
                        /\ IsResponse(c.out) => c.out.agent_name = eff
                  /\ \A p \in {last.before[m] : m \in 1..Len(last.before)} :
                        (/\ DefaultSpelledTwice(p, q)
                         /\ ~callLog[n - 1].skip
                         /\ c.t - callLog[n - 1].t < ttl_seconds) =>
                            c.skip /\ KeyOf(n) = KeyOf(n - 1))

\* a request naming "py-agent" is suppressed by the accepted request before
\* it, for the same room, that left agent_name and metadata out
C15_Witness ==
    /\ last # NoCall
    /\ last.before # <<>>
    /\ Falsy(last.before[1].agent_name)
    /\ Falsy(last.before[1].metadata)
    /\ last.request.agent_name = settings.agent_name
    /\ last.request.room = last.before[1].room
    /\ callLog[Len(callLog)].skip
    /\ ~callLog[Len(callLog) - 1].skip
    /\ RpcsOf(Len(callLog) - 1) # {}

\* C16: eviction: every should_skip call sweeps the whole map: when a call
\* made at the time now returns, the cache holds exactly the entries it held
\* with now - timestamp <= ttl_seconds and the entry of the queried key, so no
\* entry of any key with now - timestamp > ttl_seconds, and the queried key's
\* timestamp is at most now; an entry with now - timestamp > ttl_seconds
\* does not cause suppression.
C16_EvictionInvariant ==
    [][Len(callLog') = Len(callLog) + 1 =>
          LET now == clock
              c == callLog'[Len(callLog')]
              key == <<c.room, c.agent>>
          IN  /\ c.t = now
              /\ \A k \in DOMAIN cache' : now - cache'[k] <= ttl_seconds
              /\ DOMAIN cache' =
                    {k \in DOMAIN cache : now - cache[k] <= ttl_seconds}
                        \cup {key}
              /\ \A k \in (DOMAIN cache') \ {key} : cache'[k] = cache[k]
              /\ key \in DOMAIN cache' /\ cache'[key] <= now
              /\ (key \in DOMAIN cache /\ now - cache[key] > ttl_seconds) =>
                    ~c.skip /\ cache'[key] = now
              /\ c.skip => now - cache[key] < ttl_seconds]_vars

\* the entry of an accepted call was swept by a later call for another key,
\* whose own entry is in the cache
C16_Witness ==
    \E i, j \in Calls :
        /\ i < j
        /\ ~callLog[i].skip
        /\ KeyOf(i) \notin DOMAIN cache
        /\ KeyOf(j) # KeyOf(i)
        /\ KeyOf(j) \in DOMAIN cache
        /\ callLog[j].t - callLog[i].t > ttl_seconds

\* Two other caches, fed the calls of callLog in their order (C17 is about
\* the cache alone and is checked under CacheSpec).
\* The answer of both: an entry of the queried key younger than ttl_seconds
LiveEntry(c, key, now) == key \in DOMAIN c /\ now - c[key] < ttl_seconds

\* a cache that evicts the entry of the queried key only, when it is older
\* than ttl_seconds, and records as should_skip does
QueriedKeyOnly(c, key, now) ==
    LET s == IF key \in DOMAIN c /\ now - c[key] > ttl_seconds
             THEN [k \in (DOMAIN c) \ {key} |-> c[k]]
             ELSE c
    IN  IF LiveEntry(s, key, now) THEN s
        ELSE [k \in (DOMAIN s) \cup {key} |-> IF k = key THEN now ELSE s[k]]

\* a cache that never removes an entry and ignores the stale ones
NeverRemoving(c, key, now) ==
    IF LiveEntry(c, key, now) THEN c
    ELSE [k \in (DOMAIN c) \cup {key} |-> IF k = key THEN now ELSE c[k]]

RECURSIVE QueriedKeyOnlyCache(_)
QueriedKeyOnlyCache(n) ==
    IF n = 0 THEN <<>>
    ELSE QueriedKeyOnly(QueriedKeyOnlyCache(n - 1), KeyOf(n), callLog[n].t)

RECURSIVE NeverRemovingCache(_)
NeverRemovingCache(n) ==
    IF n = 0 THEN <<>>
    ELSE NeverRemoving(NeverRemovingCache(n - 1), KeyOf(n), callLog[n].t)

\* C17: eviction is not needed for correctness: the clock never going back,
\* the calls get from the full-sweep cache the answers they would get from a
\* cache that evicts only the queried key and from a cache that never removes
\* an entry but ignores the stale ones; what the full sweep leaves in the
\* cache is what the never-removing cache holds, less its stale entries.
C17_EvictionNotNeeded ==
    /\ \A i, j \in Calls : i < j => callLog[i].t <= callLog[j].t
    /\ \A j \in Calls :
          /\ callLog[j].skip =
                LiveEntry(QueriedKeyOnlyCache(j - 1), KeyOf(j), callLog[j].t)
          /\ callLog[j].skip =
                LiveEntry(NeverRemovingCache(j - 1), KeyOf(j), callLog[j].t)
    /\ LET n == Len(callLog)
           kept == NeverRemovingCache(n)
       IN  /\ DOMAIN cache \subseteq DOMAIN kept
           /\ \A k \in DOMAIN cache : cache[k] = kept[k]
           /\ \A k \in (DOMAIN kept) \ DOMAIN cache :
                 n > 0 /\ callLog[n].t - kept[k] > ttl_seconds

\* the first call's entry is swept by a call for another key, more than a
\* window later, and kept by the two other caches; a third call, for the
\* first key again, is accepted
C17_Witness ==
    \E i, j, m \in Calls :
        /\ i < j /\ j < m
        /\ KeyOf(i) = KeyOf(m) /\ KeyOf(i) # KeyOf(j)
        /\ ~callLog[i].skip /\ ~callLog[j].skip /\ ~callLog[m].skip
        /\ callLog[j].t - callLog[i].t > ttl_seconds
        /\ KeyOf(i) \in DOMAIN QueriedKeyOnlyCache(j)
        /\ KeyOf(i) \in DOMAIN NeverRemovingCache(j)
        /\ NeverRemovingCache(j)[KeyOf(i)] = callLog[i].t

\* C18: should_skip records the timestamp before the RPC is attempted and
\* create_dispatch does not take the entry back when the RPC fails or while it
\* is in flight: the entry of an accepted call whose RPC failed or is pending
\* stays in the cache until a later call sweeps or replaces it, and a second
\* create_dispatch for the same (room, agent) less than ttl_seconds later
\* returns the suppressed marker and makes no external call, though no
\* dispatch succeeded.
C18_EntryKeptOnFailure ==
    /\ [][(Len(callLog') = Len(callLog) /\ callLog' # callLog) =>
              cache' = cache]_vars
    /\ [](\A i \in Calls :
            (~callLog[i].skip /\ ~IsResponse(callLog[i].out)) =>
                /\ RpcsOf(i) # {}
                /\ (\A m \in Calls :
                        m > i =>
                            /\ callLog[m].t - callLog[i].t <= ttl_seconds
                            /\ KeyOf(m) = KeyOf(i) => callLog[m].skip) =>
                      /\ KeyOf(i) \in DOMAIN cache
                      /\ cache[KeyOf(i)] = callLog[i].t
                /\ \A j \in Calls :
                      (/\ i < j
                       /\ KeyOf(j) = KeyOf(i)
                       /\ callLog[j].t - callLog[i].t < ttl_seconds) =>
                          /\ callLog[j].skip
                          /\ RpcsOf(j) = {}
                          /\ IsSuppressedMarker(callLog[j].out))

\* the only dispatch attempted for a key failed, and a later call for the key
\* inside the window was suppressed; the failed call's entry is in the cache
C18_Witness ==
    \E i, j \in Calls :
        /\ i < j
        /\ KeyOf(i) = KeyOf(j)
        /\ IsError(callLog[i].out)
        /\ callLog[j].t > callLog[i].t
        /\ callLog[j].t - callLog[i].t < ttl_seconds
        /\ IsSuppressedMarker(callLog[j].out)
        /\ RpcsOf(j) = {}
        /\ \A r \in Rpcs : RpcKey(r) = KeyOf(i) => rpcLog[r].call = i
        /\ cache[KeyOf(i)] = callLog[i].t

----------------------------------------------------------------------------
(* Properties of the two services together, checked under ServiceSpec *)

\* C19: token issuance holds no server-side state: a token endpoint call,
\* with dispatch_agent true or false, leaves the dispatch cache as it was and
\* makes no create_dispatch call and no external dispatch RPC; every
\* create_dispatch gets the answer the dispatch calls before it determine,
\* whatever tokens were issued: one for the room and agent of a token just
\* issued with dispatch_agent true is not suppressed unless an accepted
\* create_dispatch for that pair lies less than ttl_seconds before it.
C19_TokenIssuanceStateless ==
    [][/\ (tok' # tok /\ tok' # NoToken) =>
             /\ cache' = cache
             /\ callLog' = callLog
             /\ rpcLog' = rpcLog
       /\ Len(callLog') = Len(callLog) + 1 =>
             LET n == Len(callLog')
                 c == callLog'[n]
                 dup == \E i \in Calls :
                            /\ KeyOf(i) = <<c.room, c.agent>>
                            /\ ~callLog[i].skip
                            /\ c.t - callLog[i].t < ttl_seconds
             IN  /\ tok' = tok
                 /\ c.skip <=> dup
                 /\ ~c.skip =>
                       /\ Len(rpcLog') = Len(rpcLog) + 1
                       /\ rpcLog'[Len(rpcLog')].call = n]_vars

\* a token with an embedded dispatch for room "r1" and the default agent was
\* issued; the first create_dispatch for that room and agent, made after it
\* and less than ttl_seconds later, was not suppressed and reached the RPC
C19_Witness ==
    /\ tok # NoToken
    /\ IsTokenResponse(tok.out)
    /\ tok.request.dispatch_agent
    /\ Len(tok.out.token.claims.agents) = 1
    /\ Len(callLog) = 1
    /\ callLog[1].room = tok.request.room
    /\ callLog[1].agent = tok.out.token.claims.agents[1].agent_name
    /\ tok.at < callLog[1].t
    /\ callLog[1].t - tok.at < ttl_seconds
    /\ ~callLog[1].skip
    /\ RpcsOf(1) # {}

====
